---- MODULE Spec2Model ----
(***************************************************************************)
(* Sidebar behaviour scripts of SCM_App.                                   *)
(*                                                                         *)
(* Two script files are modelled as written:                               *)
(*   src/unnamed/part_000       two DOMContentLoaded callbacks (P1, P2)    *)
(*   src/src/static/js/app.js   three DOMContentLoaded callbacks (A1..A3)  *)
(* Every callback of a file runs at page load, in order, against the same  *)
(* DOM, so every listener each callback registers is live on the page.     *)
(*                                                                         *)
(* Spec       a page that loads one of the two files; events are           *)
(*            dispatched listener by listener in registration order,       *)
(*            target first, then the document.                             *)
(* SpecCalls  the openSidebar / closeSidebar / toggleSidebar functions of  *)
(*            one callback called directly, in any order.                  *)
(* SpecUnit   a page on which a single callback ran: one registration of   *)
(*            each listener, same events as Spec.                          *)
(* SpecLoad   page load alone (the callbacks run, no event yet), with      *)
(*            toast lists of up to MaxToasts elements.                     *)
(***************************************************************************)
EXTENDS Integers, Sequences, FiniteSets, TLC

VARIABLES
    blocks,       \* the DOMContentLoaded callbacks that ran, in order
    hasToggle,    \* document.getElementById("mobile-menu-toggle") is not null
    hasOverlay,   \* document.getElementById("sidebar-overlay") is not null
    hasSidebar,   \* document.querySelector(".sidebar") is not null
    hasLinks,     \* document.querySelectorAll(".sidebar a") is not empty
    hasSearch,    \* document.querySelector(".erp-search input") is not null
    hasBootstrap, \* window.bootstrap is defined
    toasts,       \* the .toast.erp-toast elements, in document order: TRUE if new bootstrap.Toast(t).show() throws for it
    loaded,       \* how many of the DOMContentLoaded callbacks have run
    toastLog,     \* per callback that reached its toast loop: the elements it tried and the elements it showed
    search,       \* [focused, selected]: the search input has focus, its contents are selected
    acted,        \* some openSidebar, closeSidebar or toggleSidebar has been called
    dom,          \* [classList, overflow, ariaExpanded, uncaught]: body class list, body.style.overflow,
                  \* toggle's aria-expanded, and whether an exception escaped a callback or a listener
    width,        \* viewport width in CSS pixels
    ev,           \* the event being dispatched (or dispatched last)
    pending,      \* listeners the current dispatch has still to call
    pre,          \* dom and width when the current dispatch began
    trace,        \* SpecCalls: the direct calls made so far
    last,         \* SpecCalls: the last call and the dom before it
    last2         \* SpecCalls: the call before the last one

vars == <<blocks, hasToggle, hasOverlay, hasSidebar, hasLinks, hasSearch,
          hasBootstrap, toasts, loaded, toastLog, search, acted, dom, width, ev,
          pending, pre, trace, last, last2>>

config == <<blocks, hasToggle, hasOverlay, hasSidebar, hasLinks, hasSearch,
            hasBootstrap, toasts>>

----------------------------------------------------------------------------
(* Bounds and constants *)

MaxCalls == 3          \* SpecCalls: longest sequence of direct calls

MaxToasts == 3         \* SpecLoad: longest list of toast elements

MobileMax == 768       \* "(max-width: 768px)"

Widths == {320, 768, 769, 1024}

SidebarOpenClass == "sidebar-open"

NoAttr == "<absent>"   \* the toggle control carries no aria-expanded attribute

Part000 == <<"P1", "P2">>

AppJs == <<"A1", "A2", "A3">>

Variants == {"P1", "P2", "A1", "A2", "A3"}

Targets == {"toggle", "overlay", "link", "sidebar", "outside"}

Keys == {"Escape", "a", "k", "K"}

\* <<ctrlKey, metaKey>> of a keydown
Modifiers == {<<FALSE, FALSE>>, <<TRUE, FALSE>>, <<FALSE, TRUE>>}

Event(type, target, key, mod) ==
    [type |-> type, target |-> target, key |-> key, ctrlKey |-> mod[1],
     metaKey |-> mod[2], defaultPrevented |-> FALSE]

NoEvent == Event("none", "none", "", <<FALSE, FALSE>>)

NoCall == [op |-> "none", before |-> [classList |-> {}, overflow |-> "", ariaExpanded |-> NoAttr, uncaught |-> FALSE], mobile |-> FALSE]

\* every list of at most n toast elements, each throwing or not
ToastLists(n) == UNION {[1..k -> BOOLEAN] : k \in 0..n}

----------------------------------------------------------------------------
(* Shared by every callback *)

\* window.matchMedia("(max-width: 768px)").matches, evaluated at each call
isMobile == width <= MobileMax

\* document.body.classList.contains("sidebar-open")
IsOpen(d) == SidebarOpenClass \in d.classList

\* e.target.closest("#mobile-menu-toggle")
clickedToggle(e) == e.target = "toggle"

\* sidebar.contains(e.target)
clickedInsideSidebar(e) == e.target \in {"sidebar", "link"}

\* e.target.closest("#sidebar-overlay")
clickedOverlay(e) == e.target = "overlay"

\* a method called on null: the TypeError leaves the function and its callers
TypeError(d) == [d EXCEPT !.uncaught = TRUE]

\* e.key.toLowerCase()
toLowerCase(k) ==
    CASE k = "K"      -> "k"
      [] k = "Escape" -> "escape"
      [] OTHER        -> k

\* e.preventDefault()
PreventDefault(e) == [e EXCEPT !.defaultPrevented = TRUE]

----------------------------------------------------------------------------
(* part_000, first callback (lines 3-98) *)

\* slip: the if (toggleBtn) guard is dropped
P1_setExpanded_unguarded(d, isOpen) ==
    IF hasToggle
    THEN [d EXCEPT !.ariaExpanded = IF isOpen THEN "true" ELSE "false"]
    ELSE TypeError(d)

P1_setExpanded(d, isOpen) ==
    IF hasToggle
    THEN [d EXCEPT !.ariaExpanded = IF isOpen THEN "true" ELSE "false"]
    ELSE d

P1_openSidebar(d) ==
    LET d1 == [d EXCEPT !.classList = @ \cup {SidebarOpenClass}]
        d2 == IF isMobile THEN [d1 EXCEPT !.overflow = "hidden"] ELSE d1
    IN  P1_setExpanded(d2, TRUE)

\* slip: classList.toggle in place of classList.remove
P1_closeSidebar_toggleClass(d) ==
    LET d1 == [d EXCEPT !.classList = IF SidebarOpenClass \in @
                                      THEN @ \ {SidebarOpenClass}
                                      ELSE @ \cup {SidebarOpenClass}]
        d2 == [d1 EXCEPT !.overflow = ""]
    IN  P1_setExpanded(d2, FALSE)

P1_closeSidebar(d) ==
    LET d1 == [d EXCEPT !.classList = @ \ {SidebarOpenClass}]
        d2 == [d1 EXCEPT !.overflow = ""]
    IN  P1_setExpanded(d2, FALSE)

\* slip: the toggle never closes
P1_toggleSidebar_alwaysOpen(d) == P1_openSidebar(d)

P1_toggleSidebar(d) ==
    IF IsOpen(d) THEN P1_closeSidebar(d) ELSE P1_openSidebar(d)

P1_linkClick(d) == IF isMobile THEN P1_closeSidebar(d) ELSE d

P1_escapeKeydown(d, e) == IF e.key = "Escape" THEN P1_closeSidebar(d) ELSE d

P1_resize(d) == IF ~isMobile THEN P1_closeSidebar(d) ELSE d

\* slip: the clickedToggle test is dropped
P1_documentClick_noToggleTest(d, e) ==
    IF ~isMobile THEN d
    ELSE IF ~IsOpen(d) THEN d
    ELSE IF ~hasSidebar THEN d
    ELSE IF clickedOverlay(e) THEN d
    ELSE IF ~clickedInsideSidebar(e) THEN P1_closeSidebar(d)
    ELSE d

\* slip: the clickedInsideSidebar test is dropped
P1_documentClick_noInsideTest(d, e) ==
    IF ~isMobile THEN d
    ELSE IF ~IsOpen(d) THEN d
    ELSE IF ~hasSidebar THEN d
    ELSE IF clickedOverlay(e) THEN d
    ELSE IF ~clickedToggle(e) THEN P1_closeSidebar(d)
    ELSE d

P1_documentClick(d, e) ==
    IF ~isMobile THEN d
    ELSE IF ~IsOpen(d) THEN d
    ELSE IF ~hasSidebar THEN d
    ELSE IF clickedOverlay(e) THEN d
    ELSE IF ~clickedInsideSidebar(e) /\ ~clickedToggle(e) THEN P1_closeSidebar(d)
    ELSE d

\* Ctrl+K / Cmd+K: [search, ev] after the listener
P1_ctrlKKeydown(s, e) ==
    LET isCmdK == (e.ctrlKey \/ e.metaKey) /\ toLowerCase(e.key) = "k"
    IN  IF ~isCmdK THEN [search |-> s, ev |-> e]
        ELSE IF hasSearch
             THEN [search |-> [focused |-> TRUE, selected |-> TRUE], ev |-> PreventDefault(e)]
             ELSE [search |-> s, ev |-> e]

----------------------------------------------------------------------------
(* part_000, second callback (lines 102-187): no Ctrl+K listener *)

P2_setExpanded(d, isOpen) ==
    IF hasToggle
    THEN [d EXCEPT !.ariaExpanded = IF isOpen THEN "true" ELSE "false"]
    ELSE d

P2_openSidebar(d) ==
    LET d1 == [d EXCEPT !.classList = @ \cup {SidebarOpenClass}]
        d2 == IF isMobile THEN [d1 EXCEPT !.overflow = "hidden"] ELSE d1
    IN  P2_setExpanded(d2, TRUE)

P2_closeSidebar(d) ==
    LET d1 == [d EXCEPT !.classList = @ \ {SidebarOpenClass}]
        d2 == [d1 EXCEPT !.overflow = ""]
    IN  P2_setExpanded(d2, FALSE)

P2_toggleSidebar(d) ==
    IF IsOpen(d) THEN P2_closeSidebar(d) ELSE P2_openSidebar(d)

P2_linkClick(d) == IF isMobile THEN P2_closeSidebar(d) ELSE d

P2_escapeKeydown(d, e) == IF e.key = "Escape" THEN P2_closeSidebar(d) ELSE d

P2_resize(d) == IF ~isMobile THEN P2_closeSidebar(d) ELSE d

P2_documentClick(d, e) ==
    IF ~isMobile THEN d
    ELSE IF ~IsOpen(d) THEN d
    ELSE IF ~hasSidebar THEN d
    ELSE IF clickedOverlay(e) THEN d
    ELSE IF ~clickedInsideSidebar(e) /\ ~clickedToggle(e) THEN P2_closeSidebar(d)
    ELSE d

----------------------------------------------------------------------------
(* app.js, first callback (lines 3-64): no aria-expanded, no document click *)

\* slip: scroll restored on mobile only, mirroring openSidebar
A1_closeSidebar_mobileOnly(d) ==
    LET d1 == [d EXCEPT !.classList = @ \ {SidebarOpenClass}]
    IN  IF isMobile THEN [d1 EXCEPT !.overflow = ""] ELSE d1

\* slip: the class is removed, the scroll lock is left in place
A1_closeSidebar_noRestore(d) == [d EXCEPT !.classList = @ \ {SidebarOpenClass}]

A1_closeSidebar(d) ==
    LET d1 == [d EXCEPT !.classList = @ \ {SidebarOpenClass}]
    IN  [d1 EXCEPT !.overflow = ""]

A1_openSidebar(d) ==
    LET d1 == [d EXCEPT !.classList = @ \cup {SidebarOpenClass}]
    IN  IF isMobile THEN [d1 EXCEPT !.overflow = "hidden"] ELSE d1

A1_toggleSidebar(d) ==
    IF IsOpen(d) THEN A1_closeSidebar(d) ELSE A1_openSidebar(d)

A1_linkClick(d) == IF isMobile THEN A1_closeSidebar(d) ELSE d

A1_escapeKeydown(d, e) == IF e.key = "Escape" THEN A1_closeSidebar(d) ELSE d

\* slip: the isMobile() guard is dropped
A1_resize_always(d) == A1_closeSidebar(d)

A1_resize(d) == IF ~isMobile THEN A1_closeSidebar(d) ELSE d

\* Ctrl+K / Cmd+K: [search, ev] after the listener; focus only, no select()
A1_ctrlKKeydown(s, e) ==
    IF (e.ctrlKey \/ e.metaKey) /\ toLowerCase(e.key) = "k"
    THEN [search |-> IF hasSearch THEN [s EXCEPT !.focused = TRUE] ELSE s,
          ev |-> PreventDefault(e)]
    ELSE [search |-> s, ev |-> e]

----------------------------------------------------------------------------
(* app.js, second callback (lines 68-88): class only *)

A2_openSidebar(d) == [d EXCEPT !.classList = @ \cup {SidebarOpenClass}]

A2_closeSidebar(d) == [d EXCEPT !.classList = @ \ {SidebarOpenClass}]

A2_toggleSidebar(d) ==
    [d EXCEPT !.classList = IF SidebarOpenClass \in @
                            THEN @ \ {SidebarOpenClass}
                            ELSE @ \cup {SidebarOpenClass}]

----------------------------------------------------------------------------
(* app.js, third callback (lines 93-108): toggle only *)

A3_toggleSidebar(d) ==
    [d EXCEPT !.classList = IF SidebarOpenClass \in @
                            THEN @ \ {SidebarOpenClass}
                            ELSE @ \cup {SidebarOpenClass}]

----------------------------------------------------------------------------
(* Listener registration: what each callback passes to addEventListener,   *)
(* in the order of the calls.                                              *)

Reg(el, type, fn) == [el |-> el, type |-> type, fn |-> fn]

Registrations(b) ==
    CASE b = "P1" -> << Reg("toggle", "click", "P1_toggleSidebar"),
                        Reg("overlay", "click", "P1_closeSidebar"),
                        Reg("overlay", "touchstart", "P1_closeSidebar"),
                        Reg("link", "click", "P1_linkClick"),
                        Reg("document", "keydown", "P1_escapeKeydown"),
                        Reg("window", "resize", "P1_resize"),
                        Reg("document", "click", "P1_documentClick"),
                        Reg("document", "keydown", "P1_ctrlKKeydown") >>
      [] b = "P2" -> << Reg("toggle", "click", "P2_toggleSidebar"),
                        Reg("overlay", "click", "P2_closeSidebar"),
                        Reg("overlay", "touchstart", "P2_closeSidebar"),
                        Reg("link", "click", "P2_linkClick"),
                        Reg("document", "keydown", "P2_escapeKeydown"),
                        Reg("window", "resize", "P2_resize"),
                        Reg("document", "click", "P2_documentClick") >>
      [] b = "A1" -> << Reg("toggle", "click", "A1_toggleSidebar"),
                        Reg("overlay", "click", "A1_closeSidebar"),
                        Reg("link", "click", "A1_linkClick"),
                        Reg("document", "keydown", "A1_escapeKeydown"),
                        Reg("document", "keydown", "A1_ctrlKKeydown"),
                        Reg("window", "resize", "A1_resize") >>
      [] b = "A2" -> << Reg("toggle", "click", "A2_toggleSidebar"),
                        Reg("overlay", "click", "A2_closeSidebar"),
                        Reg("link", "click", "A2_closeSidebar") >>
      [] b = "A3" -> << Reg("toggle", "click", "A3_toggleSidebar"),
                        Reg("overlay", "click", "A3_toggleSidebar") >>

\* the guards around addEventListener: if (toggleBtn), if (overlay), forEach over the links
ElementExists(el) ==
    CASE el = "toggle"  -> hasToggle
      [] el = "overlay" -> hasOverlay
      [] el = "link"    -> hasLinks
      [] el = "sidebar" -> hasSidebar
      [] OTHER          -> TRUE

\* addEventListener is reached only for an element that was found: if (toggleBtn),
\* if (overlay), forEach over the (possibly empty) list of links
Guarded(el) == el \in {"toggle", "overlay", "link"}

\* addEventListener called on null
RegistrationThrows(r) == ~ElementExists(r.el) /\ ~Guarded(r.el)

\* the registrations a callback reaches: a TypeError ends the callback
RECURSIVE Reached(_)
Reached(regs) ==
    IF regs = <<>> \/ RegistrationThrows(Head(regs)) THEN <<>>
    ELSE <<Head(regs)>> \o Reached(Tail(regs))

CallbackThrows(b) ==
    \E i \in 1..Len(Registrations(b)) : RegistrationThrows(Registrations(b)[i])

RECURSIVE Registered(_)
Registered(bs) ==
    IF bs = <<>> THEN <<>>
    ELSE SelectSeq(Reached(Registrations(Head(bs))), LAMBDA r : ElementExists(r.el))
         \o Registered(Tail(bs))

\* listeners of one node for one event type, in registration order
ListenersOn(el, type) ==
    SelectSeq(Registered(blocks), LAMBDA r : r.el = el /\ r.type = type)

\* a click is delivered to its target, then bubbles to the document
ClickPath(t) == ListenersOn(t, "click") \o ListenersOn("document", "click")

Snapshot == [dom |-> dom, width |-> width]

\* every callback has run
Loaded == loaded = Len(blocks)

\* the page is loaded and no dispatch is under way
Idle == Loaded /\ pending = <<>>

----------------------------------------------------------------------------
(* Events *)

Click(t) ==
    /\ Idle
    /\ ElementExists(t)
    /\ ev' = Event("click", t, "", <<FALSE, FALSE>>)
    /\ pending' = ClickPath(t)
    /\ pre' = Snapshot
    /\ UNCHANGED <<config, loaded, toastLog, search, acted, dom, width, trace, last, last2>>

Touchstart ==
    /\ Idle
    /\ hasOverlay
    /\ ev' = Event("touchstart", "overlay", "", <<FALSE, FALSE>>)
    /\ pending' = ListenersOn("overlay", "touchstart")
    /\ pre' = Snapshot
    /\ UNCHANGED <<config, loaded, toastLog, search, acted, dom, width, trace, last, last2>>

Keydown(k, mod) ==
    /\ Idle
    /\ ev' = Event("keydown", "document", k, mod)
    /\ pending' = ListenersOn("document", "keydown")
    /\ pre' = Snapshot
    /\ UNCHANGED <<config, loaded, toastLog, search, acted, dom, width, trace, last, last2>>

\* the viewport takes width w and the window fires its resize event; no other
\* event is handled between the change of width and its resize event
Resize(w) ==
    /\ Idle
    /\ width' = w
    /\ ev' = Event("resize", "window", "", <<FALSE, FALSE>>)
    /\ pending' = ListenersOn("window", "resize")
    /\ pre' = Snapshot
    /\ UNCHANGED <<config, loaded, toastLog, search, acted, dom, trace, last, last2>>

----------------------------------------------------------------------------
(* Listeners: the head of pending is called with the event *)

Called(fns) == pending # <<>> /\ Head(pending).fn \in fns

\* the listener at the head of pending reaches an openSidebar, closeSidebar or
\* toggleSidebar call
Acts ==
    LET fn == Head(pending).fn
    IN  CASE fn \in {"P1_linkClick", "P2_linkClick", "A1_linkClick"} -> isMobile
          [] fn \in {"P1_escapeKeydown", "P2_escapeKeydown", "A1_escapeKeydown"} -> ev.key = "Escape"
          [] fn \in {"P1_resize", "P2_resize", "A1_resize"} -> ~isMobile
          [] fn \in {"P1_documentClick", "P2_documentClick"} ->
                /\ isMobile /\ IsOpen(dom) /\ hasSidebar /\ ~clickedOverlay(ev)
                /\ ~clickedInsideSidebar(ev) /\ ~clickedToggle(ev)
          [] fn \in {"P1_ctrlKKeydown", "A1_ctrlKKeydown"} -> FALSE
          [] OTHER -> TRUE

Return(d, e) ==
    /\ dom' = d
    /\ ev' = e
    /\ pending' = Tail(pending)
    /\ acted' = (acted \/ Acts)
    /\ UNCHANGED <<config, loaded, toastLog, search, width, pre, trace, last, last2>>

ToggleSidebarListener ==
    /\ Called({"P1_toggleSidebar", "P2_toggleSidebar", "A1_toggleSidebar",
               "A2_toggleSidebar", "A3_toggleSidebar"})
    /\ LET fn == Head(pending).fn
       IN  CASE fn = "P1_toggleSidebar" -> Return(P1_toggleSidebar(dom), PreventDefault(ev))
             [] fn = "P2_toggleSidebar" -> Return(P2_toggleSidebar(dom), PreventDefault(ev))
             [] fn = "A1_toggleSidebar" -> Return(A1_toggleSidebar(dom), ev)
             [] fn = "A2_toggleSidebar" -> Return(A2_toggleSidebar(dom), ev)
             [] fn = "A3_toggleSidebar" -> Return(A3_toggleSidebar(dom), ev)

CloseSidebarListener ==
    /\ Called({"P1_closeSidebar", "P2_closeSidebar", "A1_closeSidebar", "A2_closeSidebar"})
    /\ LET fn == Head(pending).fn
       IN  CASE fn = "P1_closeSidebar" -> Return(P1_closeSidebar(dom), ev)
             [] fn = "P2_closeSidebar" -> Return(P2_closeSidebar(dom), ev)
             [] fn = "A1_closeSidebar" -> Return(A1_closeSidebar(dom), ev)
             [] fn = "A2_closeSidebar" -> Return(A2_closeSidebar(dom), ev)

LinkClickListener ==
    /\ Called({"P1_linkClick", "P2_linkClick", "A1_linkClick"})
    /\ LET fn == Head(pending).fn
       IN  CASE fn = "P1_linkClick" -> Return(P1_linkClick(dom), ev)
             [] fn = "P2_linkClick" -> Return(P2_linkClick(dom), ev)
             [] fn = "A1_linkClick" -> Return(A1_linkClick(dom), ev)

EscapeKeydownListener ==
    /\ Called({"P1_escapeKeydown", "P2_escapeKeydown", "A1_escapeKeydown"})
    /\ LET fn == Head(pending).fn
       IN  CASE fn = "P1_escapeKeydown" -> Return(P1_escapeKeydown(dom, ev), ev)
             [] fn = "P2_escapeKeydown" -> Return(P2_escapeKeydown(dom, ev), ev)
             [] fn = "A1_escapeKeydown" -> Return(A1_escapeKeydown(dom, ev), ev)

ResizeListener ==
    /\ Called({"P1_resize", "P2_resize", "A1_resize"})
    /\ LET fn == Head(pending).fn
       IN  CASE fn = "P1_resize" -> Return(P1_resize(dom), ev)
             [] fn = "P2_resize" -> Return(P2_resize(dom), ev)
             [] fn = "A1_resize" -> Return(A1_resize(dom), ev)

DocumentClickListener ==
    /\ Called({"P1_documentClick", "P2_documentClick"})
    /\ LET fn == Head(pending).fn
       IN  CASE fn = "P1_documentClick" -> Return(P1_documentClick(dom, ev), ev)
             [] fn = "P2_documentClick" -> Return(P2_documentClick(dom, ev), ev)

CtrlKKeydownListener ==
    /\ Called({"P1_ctrlKKeydown", "A1_ctrlKKeydown"})
    /\ LET fn == Head(pending).fn
           r  == CASE fn = "P1_ctrlKKeydown" -> P1_ctrlKKeydown(search, ev)
                   [] fn = "A1_ctrlKKeydown" -> A1_ctrlKKeydown(search, ev)
       IN  /\ search' = r.search
           /\ ev' = r.ev
    /\ pending' = Tail(pending)
    /\ UNCHANGED <<config, loaded, toastLog, acted, dom, width, pre, trace, last, last2>>

----------------------------------------------------------------------------
(* Page load: the DOMContentLoaded callbacks run one after the other *)

HasToastLoop(b) == b \in {"P1", "P2", "A1"}

\* slip: no try / catch, the first exception leaves the loop and the callback
RECURSIVE showToasts_noCatch(_, _)
showToasts_noCatch(i, r) ==
    IF i > Len(toasts) THEN r
    ELSE IF toasts[i]
         THEN [r EXCEPT !.tried = Append(@, i), !.uncaught = TRUE]
         ELSE showToasts_noCatch(i + 1,
                 [r EXCEPT !.tried = Append(@, i), !.shown = Append(@, i)])

\* toasts i.. of the list: try { new bootstrap.Toast(t).show(); } catch (_) {}
\* r = [tried, shown, uncaught]
RECURSIVE showToasts(_, _)
showToasts(i, r) ==
    IF i > Len(toasts) THEN r
    ELSE showToasts(i + 1,
            [r EXCEPT !.tried = Append(@, i),
                      !.shown = IF toasts[i] THEN @ ELSE Append(@, i)])

\* the callback at position loaded + 1 runs: registrations, then the toast loop
LoadCallback ==
    /\ loaded < Len(blocks)
    /\ loaded' = loaded + 1
    /\ LET b == blocks[loaded + 1]
           r == showToasts(1, [tried |-> <<>>, shown |-> <<>>, uncaught |-> FALSE])
       IN  IF CallbackThrows(b)
           THEN dom' = TypeError(dom) /\ toastLog' = toastLog
           ELSE IF HasToastLoop(b) /\ hasBootstrap
                THEN /\ toastLog' = Append(toastLog, [tried |-> r.tried, shown |-> r.shown])
                     /\ dom' = IF r.uncaught THEN TypeError(dom) ELSE dom
                ELSE dom' = dom /\ toastLog' = toastLog
    /\ UNCHANGED <<config, search, acted, width, ev, pending, pre, trace, last, last2>>

----------------------------------------------------------------------------
(* The page *)

InitialDom(aria) == [classList |-> {}, overflow |-> "", ariaExpanded |-> aria, uncaught |-> FALSE]

\* pages: the scripts a page may load; present: whether the overlay, the sidebar
\* container, the sidebar links and the search input may be missing from the page;
\* libs: whether window.bootstrap may be undefined; lists: the toast lists the page
\* may carry
InitPage(pages, present, libs, lists) ==
    /\ blocks \in pages
    /\ hasToggle \in BOOLEAN
    /\ hasOverlay \in present
    /\ hasSidebar \in present
    /\ hasLinks \in {l \in present : l => hasSidebar}
    /\ hasSearch \in present
    /\ hasBootstrap \in libs
    /\ toasts \in lists
    /\ loaded = 0
    /\ toastLog = <<>>
    /\ search = [focused |-> FALSE, selected |-> FALSE]
    /\ acted = FALSE
    /\ dom \in {InitialDom(a) : a \in IF hasToggle THEN {NoAttr, "false"} ELSE {NoAttr}}
    /\ width \in Widths
    /\ ev = NoEvent
    /\ pending = <<>>
    /\ pre = [dom |-> dom, width |-> width]
    /\ trace = <<>>
    /\ last = NoCall
    /\ last2 = NoCall

\* no toast, or one toast whose construction throws
Init == InitPage({Part000, AppJs}, BOOLEAN, {TRUE}, {<<>>, <<TRUE>>})

Next ==
    \/ LoadCallback
    \/ \E t \in Targets : Click(t)
    \/ Touchstart
    \/ \E k \in Keys, mod \in Modifiers : Keydown(k, mod)
    \/ \E w \in Widths : Resize(w)
    \/ ToggleSidebarListener
    \/ CloseSidebarListener
    \/ LinkClickListener
    \/ EscapeKeydownListener
    \/ ResizeListener
    \/ DocumentClickListener
    \/ CtrlKKeydownListener

Spec == Init /\ [][Next]_vars

\* a page on which one callback alone ran
InitUnit == InitPage({<<b>> : b \in Variants}, BOOLEAN, {TRUE}, {<<>>})

SpecUnit == InitUnit /\ [][Next]_vars

\* page load alone, with toast lists of up to MaxToasts elements
InitLoad == InitPage({Part000, AppJs}, BOOLEAN, BOOLEAN, ToastLists(MaxToasts))

SpecLoad == InitLoad /\ [][LoadCallback]_vars

----------------------------------------------------------------------------
(* Direct calls of one callback's functions *)

HasOpenClose(b) == b \in {"P1", "P2", "A1", "A2"}

OpenOf(b, d) ==
    CASE b = "P1" -> P1_openSidebar(d)
      [] b = "P2" -> P2_openSidebar(d)
      [] b = "A1" -> A1_openSidebar(d)
      [] b = "A2" -> A2_openSidebar(d)

CloseOf(b, d) ==
    CASE b = "P1" -> P1_closeSidebar(d)
      [] b = "P2" -> P2_closeSidebar(d)
      [] b = "A1" -> A1_closeSidebar(d)
      [] b = "A2" -> A2_closeSidebar(d)

ToggleOf(b, d) ==
    CASE b = "P1" -> P1_toggleSidebar(d)
      [] b = "P2" -> P2_toggleSidebar(d)
      [] b = "A1" -> A1_toggleSidebar(d)
      [] b = "A2" -> A2_toggleSidebar(d)
      [] b = "A3" -> A3_toggleSidebar(d)

Record(op) ==
    /\ Loaded
    /\ Len(trace) < MaxCalls
    /\ acted' = TRUE
    /\ trace' = Append(trace, op)
    /\ last' = [op |-> op, before |-> dom, mobile |-> isMobile]
    /\ last2' = last
    /\ UNCHANGED <<config, loaded, toastLog, search, width, ev, pending, pre>>

CallOpen ==
    /\ HasOpenClose(blocks[1])
    /\ dom' = OpenOf(blocks[1], dom)
    /\ Record("open")

CallClose ==
    /\ HasOpenClose(blocks[1])
    /\ dom' = CloseOf(blocks[1], dom)
    /\ Record("close")

\* called with no event: if (e) is false, nothing to preventDefault
CallToggle ==
    /\ dom' = ToggleOf(blocks[1], dom)
    /\ Record("toggle")

\* the viewport changes between two calls
SetViewport(w) ==
    /\ Loaded
    /\ width' = w
    /\ UNCHANGED <<config, loaded, toastLog, search, acted, dom, ev, pending, pre, trace, last, last2>>

InitCalls == InitPage({<<b>> : b \in Variants}, {TRUE}, {TRUE}, {<<>>})

NextCalls ==
    \/ LoadCallback
    \/ CallOpen
    \/ CallClose
    \/ CallToggle
    \/ \E w \in Widths : SetViewport(w)

SpecCalls == InitCalls /\ [][NextCalls]_vars

----------------------------------------------------------------------------
(* Vocabulary of the properties *)

State(d) == IF IsOpen(d) THEN "OPEN" ELSE "CLOSED"

\* the reference transitions: open -> OPEN, close -> CLOSED, toggle -> the other state
RefStep(s, op) ==
    CASE op = "open"   -> "OPEN"
      [] op = "close"  -> "CLOSED"
      [] op = "toggle" -> IF s = "OPEN" THEN "CLOSED" ELSE "OPEN"

RECURSIVE RefFold(_, _)
RefFold(s, ops) == IF ops = <<>> THEN s ELSE RefFold(RefStep(s, Head(ops)), Tail(ops))

\* the dispatch of the last event has reached every listener
Dispatched(type) == Idle /\ ev.type = type

PreMobile == pre.width <= MobileMax

----------------------------------------------------------------------------
(* Properties *)

\* C1 (SpecCalls): after any sequence of open(), close() and toggle() calls from
\* CLOSED, in any viewport class, the sidebar state is the fold of the reference
\* transitions over the sequence, and it is one of OPEN and CLOSED.
C1_StateIsReferenceFold ==
    /\ State(dom) = RefFold("CLOSED", trace)
    /\ State(dom) \in {"OPEN", "CLOSED"}

C1_Witness ==
    /\ trace = <<"open", "close", "toggle">>
    /\ State(dom) = "OPEN"

\* C2 (Spec): toggle control present, viewport mobile, sidebar CLOSED: once a click
\* on the toggle control has reached every listener registered for it, the sidebar
\* is OPEN, body overflow is 'hidden' and aria-expanded is 'true'.
C2_ToggleClickOpens ==
    (Dispatched("click") /\ ev.target = "toggle" /\ PreMobile /\ ~IsOpen(pre.dom))
        => (IsOpen(dom) /\ dom.overflow = "hidden" /\ dom.ariaExpanded = "true")

\* C3 (Spec): after any sequence of events, if the sidebar is OPEN and the viewport
\* is mobile then body overflow is 'hidden'.
C3_OpenMobileLocksScroll ==
    (Idle /\ IsOpen(dom) /\ isMobile) => dom.overflow = "hidden"

\* C4 (Spec): after every complete dispatch, a CLOSED sidebar has body overflow
\* other than 'hidden'.
C4_ClosedReleasesScroll ==
    (Idle /\ ~IsOpen(dom)) => dom.overflow # "hidden"

C4_Witness ==
    /\ Idle
    /\ ~IsOpen(dom)
    /\ IsOpen(pre.dom)
    /\ pre.dom.overflow = "hidden"
    /\ dom.overflow = ""

\* C5 as stated (SpecCalls): close() called while the sidebar is CLOSED, the state
\* right after page load included, leaves the class marker, body overflow and
\* aria-expanded as they were.
C5_CloseWhenClosedChangesNothing ==
    (last.op = "close" /\ ~IsOpen(last.before)) => dom = last.before

\* C5 amended (SpecCalls): close() called while the sidebar is CLOSED leaves the class
\* marker and body overflow as they were, and leaves aria-expanded as it was unless
\* the attribute was absent, which close() sets to 'false'; a close() right after a
\* close() changes nothing at all.
C5_CloseIdempotent ==
    /\ (last.op = "close" /\ ~IsOpen(last.before)) =>
          /\ dom.classList = last.before.classList
          /\ dom.overflow = last.before.overflow
          /\ \/ dom.ariaExpanded = last.before.ariaExpanded
             \/ last.before.ariaExpanded = NoAttr /\ dom.ariaExpanded = "false"
    /\ (last.op = "close" /\ last2.op = "close") => dom = last.before

C5_Witness ==
    /\ last.op = "close"
    /\ last2.op = "none"
    /\ ~IsOpen(last.before)
    /\ last.before.ariaExpanded = NoAttr
    /\ dom.ariaExpanded = "false"

\* C6 as stated (SpecCalls): whatever body overflow value v held before open(), and
\* whatever the viewport class at either call, open() then close() leaves overflow = v.
C6_OpenCloseRestoresAnyValue ==
    (last2.op = "open" /\ last.op = "close") => dom.overflow = last2.before.overflow

\* C6 amended (SpecCalls): if body overflow is '' before open(), then open() followed
\* immediately by close() leaves it '', whatever the viewport class at either call.
C6_OpenCloseRestoresEmpty ==
    (last2.op = "open" /\ last.op = "close" /\ last2.before.overflow = "")
        => dom.overflow = ""

C6_Witness ==
    /\ last2.op = "open"
    /\ last.op = "close"
    /\ last2.mobile
    /\ ~last.mobile
    /\ last2.before.overflow = ""
    /\ last.before.overflow = "hidden"
    /\ dom.overflow = ""

\* C7 (Spec): once a click or a touchstart on the overlay has reached every
\* registered listener, the sidebar is CLOSED, and a document click listener called
\* for an overlay click leaves the DOM as it found it.
C7_OverlayCloses ==
    /\ (Idle /\ ev.type \in {"click", "touchstart"} /\ ev.target = "overlay")
          => ~IsOpen(dom)
    /\ (Called({"P1_documentClick"}) /\ ev.target = "overlay")
          => P1_documentClick(dom, ev) = dom
    /\ (Called({"P2_documentClick"}) /\ ev.target = "overlay")
          => P2_documentClick(dom, ev) = dom

\* C8 (Spec): sidebar OPEN, viewport mobile, sidebar container present: a click on a
\* target outside the sidebar, the toggle control and the overlay leaves the sidebar
\* CLOSED with body overflow ''.
C8_OutsideClickCloses ==
    (Dispatched("click") /\ ev.target = "outside" /\ IsOpen(pre.dom) /\ PreMobile /\ hasSidebar)
        => (~IsOpen(dom) /\ dom.overflow = "")

\* C9 (Spec): after a resize event at a non-mobile width the sidebar is CLOSED with
\* body overflow ''; a resize event at a mobile width leaves the class marker, body
\* overflow and aria-expanded as they were.
C9_ResizeClosesOnDesktopOnly ==
    Dispatched("resize") =>
        IF ~isMobile
        THEN ~IsOpen(dom) /\ dom.overflow = ""
        ELSE dom = pre.dom

C9_Witness ==
    /\ Dispatched("resize")
    /\ ~isMobile
    /\ PreMobile
    /\ IsOpen(pre.dom)
    /\ pre.dom.overflow = "hidden"
    /\ ~IsOpen(dom)
    /\ dom.overflow = ""

\* C10 (Spec): a click on a sidebar link on a mobile viewport leaves the sidebar
\* CLOSED with body overflow ''; on a non-mobile viewport it leaves the sidebar
\* state as it was.
C10_LinkClickClosesOnMobileOnly ==
    (Dispatched("click") /\ ev.target = "link") =>
        IF isMobile
        THEN ~IsOpen(dom) /\ dom.overflow = ""
        ELSE State(dom) = State(pre.dom)

C12_ToastsAllTried ==
    (Loaded /\ hasBootstrap) =>
        /\ toastLog # <<>>
        /\ \A p \in 1..Len(toastLog) :
              /\ toastLog[p].tried = [i \in 1..Len(toasts) |-> i]
              /\ toastLog[p].shown =
                    SelectSeq([i \in 1..Len(toasts) |-> i], LAMBDA i : ~toasts[i])
        /\ ~dom.uncaught
        /\ dom = pre.dom

C12_Witness ==
    /\ Loaded
    /\ hasBootstrap
    /\ toasts = <<FALSE, TRUE, FALSE>>
    /\ toastLog[1].tried = <<1, 2, 3>>
    /\ toastLog[1].shown = <<1, 3>>

\* C13 (Spec): after a keydown of Ctrl+K or Cmd+K, key 'k' or 'K', with the search
\* input present, the input has focus, its contents are selected, the default action
\* is prevented, and class marker, body overflow and aria-expanded are as before.
C13_CtrlKFocusesAndSelects ==
    (Dispatched("keydown") /\ (ev.ctrlKey \/ ev.metaKey) /\ ev.key \in {"k", "K"} /\ hasSearch)
        => /\ search.focused
           /\ search.selected
           /\ ev.defaultPrevented
           /\ dom = pre.dom

\* C14 (Spec): after an Escape keydown the sidebar is CLOSED, body overflow is '' and
\* the toggle control, if there is one, has aria-expanded 'false'; after a keydown of
\* any other key the sidebar state is as before.
C14_EscapeCloses ==
    /\ (Dispatched("keydown") /\ ev.key = "Escape")
          => /\ ~IsOpen(dom)
             /\ dom.overflow = ""
             /\ hasToggle => dom.ariaExpanded = "false"
    /\ (Dispatched("keydown") /\ ev.key # "Escape") => State(dom) = State(pre.dom)

\* C15 (Spec): with the toggle control present, after a complete dispatch and at
\* least one open or close, aria-expanded is 'true' exactly when the sidebar is OPEN
\* and 'false' exactly when it is CLOSED.
C15_AriaReflectsState ==
    (Idle /\ hasToggle /\ acted) =>
        /\ (dom.ariaExpanded = "true") <=> IsOpen(dom)
        /\ (dom.ariaExpanded = "false") <=> ~IsOpen(dom)

DocumentClickExempt ==
    /\ Called({"P1_documentClick", "P2_documentClick"})
    /\ \/ ~isMobile
       \/ ~IsOpen(dom)
       \/ ~hasSidebar
       \/ ev.target \in {"sidebar", "toggle", "overlay"}

\* C17 (SpecUnit): the document click listener leaves class marker, body overflow and
\* aria-expanded unchanged when the viewport is non-mobile, the sidebar is CLOSED,
\* the sidebar container is missing, or the target is inside the sidebar container,
\* the toggle control or the overlay.
C17_DocumentClickFrame == [][DocumentClickExempt => dom' = dom]_vars

C17_Witness ==
    /\ Called({"P1_documentClick"})
    /\ isMobile
    /\ IsOpen(dom)
    /\ hasSidebar
    /\ ev.target = "sidebar"

====
